---- MODULE Spec2Model ----
(***************************************************************************)
(* Model of streamlit_app.py: the cached artwork search (get_artworks),    *)
(* the background held in st.session_state, and the export block that      *)
(* composites the canvas pixel buffer.  One run of the script is a walk    *)
(* of pc from "start" to "done" (or "aborted" when an exception escapes);  *)
(* every user interaction starts a new run.                                *)
(***************************************************************************)
EXTENDS Integers, Sequences, FiniteSets, TLC

VARIABLES
    session_state,  \* st.session_state: a mapping, key "background_image_pil"
    cache,          \* st.cache_data store of get_artworks: artist |-> entry
    called,         \* artist names get_artworks has been called with so far
    server,         \* what the museum API answers per artist when it succeeds
    widgets,        \* widget values of the current run (sidebar, canvas, buttons)
    artworks,       \* the script's local `artworks`
    page,           \* what the current run has rendered / recorded so far
    last_load,      \* history: the load that last set the background (its url, whether
                    \* its pixels can be decoded, whether it replaced one), None after a clear
    pc              \* position of the current run in the script

vars == <<session_state, cache, called, server, widgets, artworks, page, last_load, pc>>

----------------------------------------------------------------------------
(* Bounds of the model *)

\* the user picks among the first MaxArtists entries of the artist radio
MaxArtists == 2
\* longest `data` array of an API response explored for get_artworks
MaxItems == 2
\* largest width of a canvas pixel buffer explored for the export block
MaxW == 2
\* largest height of a canvas pixel buffer explored for the export block
MaxH == 1

----------------------------------------------------------------------------
(* Python values *)

\* Python None and a present value, as sequences of length 0 and 1
None == <<>>
Some(x) == <<x>>

Min(a, b) == IF a < b THEN a ELSE b
Max(a, b) == IF a < b THEN b ELSE a

\* `limit=9` of the search url, line 36: a response has at most 9 items
Limit == 9

\* line 55
artists == <<"Vincent van Gogh", "Claude Monet", "Rembrandt", "Katsushika Hokusai">>

SelectableArtists == {artists[i] : i \in 1..Min(MaxArtists, Len(artists))}

----------------------------------------------------------------------------
(* get_artworks: lines 33-45 *)

\* item.get('image_id') as a condition: a missing/null id and "" are falsy
Truthy(image_id) == image_id # None /\ image_id[1] # ""

\* the f-string of line 41
ImageUrl(image_id) == "https://www.artic.edu/iiif/2/" \o image_id \o "/full/400,/0/default.jpg"

\* the dict built per item on line 41
ArtworkRecord(item) ==
    [title |-> item.title, artist |-> item.artist_title,
     image_url |-> ImageUrl(item.image_id[1])]

\* variant: the filter written as `is not None`, which lets "" through
KeepsItemIfNotNone(item) == item.image_id # None

\* the `if item.get('image_id')` filter of the comprehension
KeepsItem(item) == Truthy(item.image_id)

\* the list comprehension of line 41, in response order
RECURSIVE Comprehension(_)
Comprehension(data) ==
    IF data = <<>> THEN <<>>
    ELSE (IF KeepsItem(Head(data)) THEN <<ArtworkRecord(Head(data))>> ELSE <<>>)
         \o Comprehension(Tail(data))

\* outcomes of the search request of lines 38-40
\*   "raise"      requests.get raises (connection error, timeout)
\*   "http_error" raise_for_status raises HTTPError
\*   "bad_json"   response.json() raises requests' JSONDecodeError (a
\*                RequestException)
\*   "malformed"  the body is JSON but lacks 'data' (or an item lacks a field):
\*                KeyError, which is no RequestException
\*   "ok"         the body carries the data array
SearchOutcomes == {"raise", "http_error", "bad_json", "malformed", "ok"}

\* the outcomes `except requests.exceptions.RequestException` catches
Caught(outcome) == outcome \in {"raise", "http_error", "bad_json"}

----------------------------------------------------------------------------
(* Images (PIL) and pixel buffers (numpy), lines 119-126 *)

\* A PIL image: mode, size <<width, height>>, pixels row by row.  Image.open
\* only reads the header, so an image whose file was cut short has fewer
\* pixels than its size announces; they are first read when it is loaded.
Loadable(img) == Len(img.px) = img.size[1] * img.size[2]

\* the session-state key of lines 20-21
BG == "background_image_pil"

\* `if st.session_state.background_image_pil:` -- None is falsy, an Image
\* object (PIL defines neither __bool__ nor __len__ on it) is truthy
HasBackground(ss) == ss[BG] # None

\* canvas_result.image_data: None, or an array [shape |-> <<h, w, c>>, px]
\* variant: the guard without its channel test
ExportGuardNoChannelTest(image_data) == image_data # None

\* the condition of line 119
ExportGuard(image_data) == image_data # None /\ image_data[1].shape[3] = 4

\* Image.fromarray(img_data) for a uint8 array of shape (h, w, c)
FromArray(arr) ==
    [mode |-> IF arr.shape[3] = 4 THEN "RGBA" ELSE "RGB",
     size |-> <<arr.shape[2], arr.shape[1]>>,
     px   |-> arr.px]

\* Image.resize(size): a copy when the size is unchanged, else every target
\* pixel is sampled from the source pixel under its centre
Resize(img, size) ==
    IF img.size = size THEN img
    ELSE [mode |-> img.mode, size |-> size,
          px |-> [k \in 1..(size[1] * size[2]) |->
                    LET x  == (k - 1) % size[1]
                        y  == (k - 1) \div size[1]
                        sx == ((2 * x + 1) * img.size[1]) \div (2 * size[1])
                        sy == ((2 * y + 1) * img.size[2]) \div (2 * size[2])
                    IN  img.px[sy * img.size[1] + sx + 1]]]

\* Image.convert('RGBA') of an "L", "RGB" or "RGBA" image
ConvertRGBA(img) ==
    [mode |-> "RGBA", size |-> img.size,
     px |-> [k \in 1..Len(img.px) |->
               LET p == img.px[k]
               IN  CASE img.mode = "L"    -> <<p[1], p[1], p[1], 255>>
                     [] img.mode = "RGB"  -> <<p[1], p[2], p[3], 255>>
                     [] img.mode = "RGBA" -> p]]

\* SHIFTFORDIV255 of Pillow: (((a) >> 8) + a) >> 8
ShiftForDiv255(a) == ((a \div 256) + a) \div 256

\* one pixel of Image.alpha_composite(dst, src) (Pillow's integer arithmetic,
\* 7 bits of extra precision)
AlphaCompositePixel(dst, src) ==
    IF src[4] = 0 THEN dst
    ELSE LET blend   == dst[4] * (255 - src[4])
             outa255 == src[4] * 255 + blend
             coef1   == (src[4] * 255 * 255 * 128) \div outa255
             coef2   == 255 * 128 - coef1
             ch(i)   == ShiftForDiv255(src[i] * coef1 + dst[i] * coef2 + 128 * 128) \div 128
         IN  <<ch(1), ch(2), ch(3), ShiftForDiv255(outa255 + 128)>>

\* Image.alpha_composite(im1, im2): both RGBA and of one size, else ValueError
CanAlphaComposite(im1, im2) ==
    im1.mode = "RGBA" /\ im2.mode = "RGBA" /\ im1.size = im2.size

AlphaComposite(im1, im2) ==
    [mode |-> "RGBA", size |-> im1.size,
     px |-> [k \in 1..Len(im1.px) |-> AlphaCompositePixel(im1.px[k], im2.px[k])]]

\* Image.new('RGB', size, 'white')
NewImage(size) ==
    [mode |-> "RGB", size |-> size,
     px |-> [k \in 1..(size[1] * size[2]) |-> <<255, 255, 255>>]]

\* one pixel of Image.paste(im, mask=mask) with an RGBA mask: Pillow's
\* BLEND(mask, in1, in2) == DIV255(in1 * (255 - mask) + in2 * mask)
PastePixel(out, in, mask) ==
    LET ch(i) == ShiftForDiv255(out[i] * (255 - mask[4]) + in[i] * mask[4] + 128)
    IN  <<ch(1), ch(2), ch(3)>>

\* base.paste(im, mask=mask): needs a mask with an alpha band
CanPaste(base, im, mask) == mask.mode = "RGBA" /\ im.size = base.size

Paste(base, im, mask) ==
    [mode |-> base.mode, size |-> base.size,
     px |-> [k \in 1..Len(base.px) |-> PastePixel(base.px[k], im.px[k], mask.px[k])]]

\* variant: the arguments of alpha_composite exchanged
CompositeSwapped(bg, img_data) ==
    AlphaComposite(FromArray(img_data),
                   ConvertRGBA(Resize(bg, <<img_data.shape[2], img_data.shape[1]>>)))

\* lines 122-123: the background resized to the buffer, the buffer composited on it
CompositeOnBackground(bg, img_data) ==
    AlphaComposite(ConvertRGBA(Resize(bg, <<img_data.shape[2], img_data.shape[1]>>)),
                   FromArray(img_data))

\* variant: the paste without mask=, which copies transparent pixels too
PasteWithoutMask(img_data) ==
    LET im == FromArray(img_data)
    IN  [mode |-> "RGB", size |-> im.size,
         px |-> [k \in 1..Len(im.px) |-> <<im.px[k][1], im.px[k][2], im.px[k][3]>>]]

\* lines 125-126: a white base, the buffer pasted through its own alpha
PasteOnWhite(img_data) ==
    Paste(NewImage(<<img_data.shape[2], img_data.shape[1]>>),
          FromArray(img_data), FromArray(img_data))

----------------------------------------------------------------------------
(* The environment: the museum API, the image server, the user's choices *)

Item(title, artist_title, image_id) ==
    [title |-> title, artist_title |-> artist_title, image_id |-> image_id]

\* the data array the search endpoint answers with, per artist, in a session
Catalogue ==
    [a \in {artists[i] : i \in 1..Len(artists)} |->
        CASE a = artists[1] ->
               <<Item("The Bedroom", a, Some("i1")),
                 Item("Sketch", a, None),
                 Item("Self-Portrait", a, Some("i2"))>>
          [] a = artists[2] ->
               <<Item("Water Lilies", a, Some("i3")),
                 Item("Water Lilies", a, Some("i3"))>>
          [] a = artists[3] -> <<>>
          [] a = artists[4] -> <<Item("The Great Wave", a, Some(""))>>]

\* the picture the image server holds under a url of line 41
ServerImage(url) ==
    CASE url = ImageUrl("i1") ->
           [mode |-> "RGB", size |-> <<1, 1>>, px |-> <<<<200, 100, 50>>>>]
      [] url = ImageUrl("i2") ->
           [mode |-> "RGB", size |-> <<2, 1>>, px |-> <<<<10, 20, 30>>, <<250, 240, 230>>>>]
      [] OTHER ->
           [mode |-> "L", size |-> <<1, 1>>, px |-> <<<<90>>>>]

\* the same picture when the body ends before the pixel data does
Truncated(img) == [img EXCEPT !.px = SubSeq(img.px, 1, Len(img.px) - 1)]

\* outcomes of lines 79-80
\*   "raise"      requests.get raises
\*   "not_image"  Image.open does not recognise the body: UnidentifiedImageError
\*   "truncated"  the header is an image's, the pixel data is cut short:
\*                Image.open returns, the first load of the pixels raises OSError
\*   "ok"         the body is the picture
LoadOutcomes == {"raise", "not_image", "truncated", "ok"}

\* sampled values of the sidebar controls of lines 59-61 (defaults first)
StrokeWidths == {3, 50}
StrokeColors == {"#000000", "#ff0000"}
DrawingModes == {"freedraw", "transform"}

\* pixel buffers the canvas reports in a session: a blank surface, a surface
\* with one opaque and one half-transparent stroke pixel, a 3-channel array
SessionBuffers ==
    { [shape |-> <<1, 1, 4>>, px |-> <<<<0, 0, 0, 0>>>>],
      [shape |-> <<1, 2, 4>>, px |-> <<<<0, 0, 0, 255>>, <<255, 0, 0, 128>>>>],
      [shape |-> <<1, 1, 3>>, px |-> <<<<0, 0, 0>>>>] }

\* widget keys: line 77, and the keyless button of line 90
BtnKey(image_url) == "btn_" \o image_url
ClearKey == "clear_background_button"

----------------------------------------------------------------------------
(* State of a run *)

\* nothing rendered yet
EmptyPage ==
    [error     |-> FALSE,   \* st.error of line 44 shown
     warning   |-> FALSE,   \* st.warning of line 71 shown
     search    |-> "none",  \* how get_artworks was answered: "hit" or an outcome
     seen      |-> FALSE,   \* get_artworks had been called with this artist before
     request   |-> FALSE,   \* this run sent a search request (line 38)
     exception |-> None,    \* the exception that ended the run, if any
     download  |-> None]    \* the download button of line 132 and its data

\* widget values of a fresh session
DefaultWidgets ==
    [selected_artist |-> artists[1],
     stroke_width    |-> 3,
     stroke_color    |-> "#000000",
     drawing_mode    |-> "freedraw",
     image_data      |-> None,
     clicked         |-> None]

Abort(exc) ==
    /\ pc' = "aborted"
    /\ page' = [page EXCEPT !.exception = Some(exc)]
    /\ UNCHANGED widgets

\* st.rerun(): the run ends and the script starts over; a button is True
\* only in the run its click started
Rerun ==
    /\ pc' = "start"
    /\ page' = EmptyPage
    /\ artworks' = <<>>
    /\ widgets' = [widgets EXCEPT !.clicked = None]

Init ==
    /\ session_state = [k \in {} |-> None]
    /\ cache = [a \in {} |-> None]
    /\ called = {}
    /\ server = Catalogue
    /\ widgets = DefaultWidgets
    /\ artworks = <<>>
    /\ page = EmptyPage
    /\ last_load = None
    /\ pc = "start"

----------------------------------------------------------------------------
(* The script, top to bottom *)

\* variant: the initialisation without its `not in` test
InitSessionStateAlways(ss) == [k \in {BG} |-> None]

\* lines 20-21
InitSessionState(ss) ==
    IF BG \notin DOMAIN ss THEN [k \in {BG} |-> None] ELSE ss

SessionInit ==
    /\ pc = "start"
    /\ session_state' = InitSessionState(session_state)
    /\ pc' = "fetch"
    /\ UNCHANGED <<cache, called, server, widgets, artworks, page, last_load>>

\* what the body of get_artworks returns (and st.cache_data stores with the
\* st.error it recorded) when it returns
GetArtworksReturn(outcome, data) ==
    IF outcome = "ok"
    THEN [value |-> Comprehension(data), error |-> FALSE]
    ELSE [value |-> <<>>, error |-> TRUE]

\* line 69, the artist's entry is in the cache: the stored value is returned
\* and the stored st.error is replayed, no request is sent
GetArtworksHit ==
    /\ pc = "fetch"
    /\ widgets.selected_artist \in DOMAIN cache
    /\ artworks' = cache[widgets.selected_artist].value
    /\ page' = [page EXCEPT !.error = cache[widgets.selected_artist].error,
                            !.search = "hit",
                            !.seen = widgets.selected_artist \in called]
    /\ called' = called \cup {widgets.selected_artist}
    /\ pc' = "gallery"
    /\ UNCHANGED <<session_state, cache, server, widgets, last_load>>

\* line 69, no entry: the body runs (lines 36-45); a return value is stored,
\* an exception that escapes the body stores nothing
GetArtworksMiss(outcome) ==
    /\ pc = "fetch"
    /\ widgets.selected_artist \notin DOMAIN cache
    /\ called' = called \cup {widgets.selected_artist}
    /\ IF outcome = "ok" \/ Caught(outcome)
       THEN LET a == widgets.selected_artist
                r == GetArtworksReturn(outcome, server[a])
            IN  /\ cache' = [x \in DOMAIN cache \cup {a} |->
                               IF x = a THEN r ELSE cache[x]]
                /\ artworks' = r.value
                /\ page' = [page EXCEPT !.error = r.error, !.search = outcome,
                                        !.request = TRUE,
                                        !.seen = a \in called]
                /\ pc' = "gallery"
                /\ UNCHANGED widgets
       ELSE /\ pc' = "aborted"
            /\ page' = [page EXCEPT !.exception = Some("KeyError"),
                                    !.search = outcome, !.request = TRUE,
                                    !.seen = widgets.selected_artist \in called]
            /\ UNCHANGED <<cache, artworks, widgets>>
    /\ UNCHANGED <<session_state, server, last_load>>

\* first position in the list whose button key was already used by an earlier
\* position (st.button raises there), 0 if the keys are distinct
FirstDuplicate(arts) ==
    LET dup == {j \in 1..Len(arts) :
                  \E i \in 1..(j - 1) : arts[i].image_url = arts[j].image_url}
    IN  IF dup = {} THEN 0 ELSE CHOOSE j \in dup : \A k \in dup : j <= k

\* first position whose button the user's click was on, 0 if none
FirstClicked(arts, clicked) ==
    LET hit == {j \in 1..Len(arts) : clicked = Some(BtnKey(arts[j].image_url))}
    IN  IF hit = {} THEN 0 ELSE CHOOSE j \in hit : \A k \in hit : j <= k

\* the loop of lines 74-77 reaches a clicked button before any duplicate key
LoadRequested(arts, clicked) ==
    /\ FirstClicked(arts, clicked) # 0
    /\ FirstDuplicate(arts) = 0 \/ FirstClicked(arts, clicked) < FirstDuplicate(arts)

\* lines 70-71
GalleryEmpty ==
    /\ pc = "gallery"
    /\ artworks = <<>>
    /\ page' = [page EXCEPT !.warning = TRUE]
    /\ pc' = "clear"
    /\ UNCHANGED <<session_state, cache, called, server, widgets, artworks, last_load>>

\* lines 73-77, no button of the grid was clicked
GalleryShown ==
    /\ pc = "gallery"
    /\ artworks # <<>>
    /\ ~LoadRequested(artworks, widgets.clicked)
    /\ IF FirstDuplicate(artworks) # 0
       THEN Abort("DuplicateWidgetID")
       ELSE pc' = "clear" /\ UNCHANGED <<page, widgets>>
    /\ UNCHANGED <<session_state, cache, called, server, artworks, last_load>>

\* variant: a load that keeps a background already present
AssignBackgroundIfNone(ss, img) ==
    IF ss[BG] = None THEN [ss EXCEPT ![BG] = Some(img)] ELSE ss

\* line 81
AssignBackground(ss, img) == [ss EXCEPT ![BG] = Some(img)]

\* lines 77-82: the handler of an artwork's button
LoadAsBackground(outcome) ==
    /\ pc = "gallery"
    /\ artworks # <<>>
    /\ LoadRequested(artworks, widgets.clicked)
    /\ LET url == artworks[FirstClicked(artworks, widgets.clicked)].image_url
       IN  CASE outcome = "raise" ->
                  /\ Abort("ConnectionError")
                  /\ UNCHANGED <<session_state, artworks, last_load>>
             [] outcome = "not_image" ->
                  /\ Abort("UnidentifiedImageError")
                  /\ UNCHANGED <<session_state, artworks, last_load>>
             [] outcome = "truncated" ->
                  /\ session_state' = AssignBackground(session_state, Truncated(ServerImage(url)))
                  /\ last_load' = Some([url |-> url, decodable |-> FALSE,
                                         replaced |-> HasBackground(session_state)])
                  /\ Rerun
             [] outcome = "ok" ->
                  /\ session_state' = AssignBackground(session_state, ServerImage(url))
                  /\ last_load' = Some([url |-> url, decodable |-> TRUE,
                                         replaced |-> HasBackground(session_state)])
                  /\ Rerun
    /\ UNCHANGED <<cache, called, server>>

\* variant: a clear that assigns nothing
ClearedKeeps(ss) == ss

\* line 91
Cleared(ss) == [ss EXCEPT ![BG] = None]

\* lines 89-92: the button exists only while a background is loaded
ClearStep ==
    /\ pc = "clear"
    /\ IF HasBackground(session_state) /\ widgets.clicked = Some(ClearKey)
       THEN /\ session_state' = Cleared(session_state)
            /\ last_load' = None
            /\ Rerun
       ELSE /\ pc' = "canvas"
            /\ UNCHANGED <<session_state, last_load, page, artworks, widgets>>
    /\ UNCHANGED <<cache, called, server>>

\* lines 95-116: image_to_base64 saves the background as PNG, which loads its
\* pixels; the canvas is rendered and reports its pixel buffer
CanvasStep ==
    /\ pc = "canvas"
    /\ IF HasBackground(session_state) /\ ~Loadable(session_state[BG][1])
       THEN Abort("OSError")
       ELSE pc' = "export" /\ UNCHANGED <<page, widgets>>
    /\ UNCHANGED <<session_state, cache, called, server, artworks, last_load>>

\* the download button of lines 128-138 with the PNG of final_img
Download(final_img) ==
    [file_name |-> "my_masterpiece.png", mime |-> "image/png", image |-> final_img]

\* lines 119-138
ExportStep ==
    /\ pc = "export"
    /\ IF ExportGuard(widgets.image_data)
       THEN LET img_data == widgets.image_data[1]
                fg       == FromArray(img_data)
                size     == <<img_data.shape[2], img_data.shape[1]>>
            IN  IF HasBackground(session_state)
                THEN IF CanAlphaComposite(ConvertRGBA(Resize(session_state[BG][1], size)), fg)
                     THEN /\ page' = [page EXCEPT !.download =
                                 Some(Download(CompositeOnBackground(session_state[BG][1], img_data)))]
                          /\ pc' = "done"
                          /\ UNCHANGED widgets
                     ELSE Abort("ValueError")
                ELSE IF CanPaste(NewImage(size), fg, fg)
                     THEN /\ page' = [page EXCEPT !.download =
                                 Some(Download(PasteOnWhite(img_data)))]
                          /\ pc' = "done"
                          /\ UNCHANGED widgets
                     ELSE Abort("ValueError")
       ELSE /\ pc' = "done"
            /\ UNCHANGED <<page, widgets>>
    /\ UNCHANGED <<session_state, cache, called, server, artworks, last_load>>

----------------------------------------------------------------------------
(* User interactions: each one starts a new run of the script *)

Idle == pc \in {"done", "aborted"}

NewRun(w) ==
    /\ widgets' = w
    /\ pc' = "start"
    /\ page' = EmptyPage
    /\ artworks' = <<>>
    /\ UNCHANGED <<session_state, cache, called, server, last_load>>

\* line 56
SelectArtist(a) ==
    /\ Idle /\ a # widgets.selected_artist
    /\ NewRun([widgets EXCEPT !.selected_artist = a, !.clicked = None])

\* line 59
SetStrokeWidth(n) ==
    /\ Idle /\ n # widgets.stroke_width
    /\ NewRun([widgets EXCEPT !.stroke_width = n, !.clicked = None])

\* line 60
SetStrokeColor(c) ==
    /\ Idle /\ c # widgets.stroke_color
    /\ NewRun([widgets EXCEPT !.stroke_color = c, !.clicked = None])

\* line 61
SetDrawingMode(m) ==
    /\ Idle /\ m # widgets.drawing_mode
    /\ NewRun([widgets EXCEPT !.drawing_mode = m, !.clicked = None])

\* lines 106-115: the canvas reports a new pixel buffer (update_streamlit=True)
Draw(buf) ==
    /\ Idle /\ Some(buf) # widgets.image_data
    /\ NewRun([widgets EXCEPT !.image_data = Some(buf), !.clicked = None])

\* line 77: a click on a button of the grid the last run rendered
ClickLoad(k) ==
    /\ Idle /\ k \in 1..Len(artworks)
    /\ NewRun([widgets EXCEPT !.clicked = Some(BtnKey(artworks[k].image_url))])

\* line 90: a click on the clear button; it can still arrive when the button
\* is gone (a second click sent before the page was refreshed)
ClickClear ==
    /\ Idle
    /\ NewRun([widgets EXCEPT !.clicked = Some(ClearKey)])

\* line 132: a click on the download button reruns the script
ClickDownload ==
    /\ Idle /\ page.download # None
    /\ NewRun([widgets EXCEPT !.clicked = None])

Next ==
    \/ SessionInit
    \/ GetArtworksHit
    \/ \E o \in SearchOutcomes : GetArtworksMiss(o)
    \/ GalleryEmpty
    \/ GalleryShown
    \/ \E o \in LoadOutcomes : LoadAsBackground(o)
    \/ ClearStep
    \/ CanvasStep
    \/ ExportStep
    \/ \E a \in SelectableArtists : SelectArtist(a)
    \/ \E n \in StrokeWidths : SetStrokeWidth(n)
    \/ \E c \in StrokeColors : SetStrokeColor(c)
    \/ \E m \in DrawingModes : SetDrawingMode(m)
    \/ \E b \in SessionBuffers : Draw(b)
    \/ \E k \in 1..Limit : ClickLoad(k)
    \/ ClickClear
    \/ ClickDownload

Spec == Init /\ [][Next]_vars

----------------------------------------------------------------------------
(* get_artworks on arbitrary responses *)

SeqsUpTo(S, n) == UNION {[1..k -> S] : k \in 0..n}

\* items a response can carry: two titles; the image id null, empty or set
SampleItems ==
    {Item(t, "Artist", i) : t \in {"Untitled", "Study"},
                            i \in {None, Some(""), Some("i1"), Some("i2")}}

\* a run about to call get_artworks for an artist never searched before,
\* against an API holding any data array of up to MaxItems items for it
InitFetch ==
    /\ session_state = [k \in {BG} |-> None]
    /\ cache = [a \in {} |-> None]
    /\ called = {}
    /\ \E sel \in SelectableArtists, data \in SeqsUpTo(SampleItems, Min(MaxItems, Limit)) :
         /\ server = [a \in {artists[i] : i \in 1..Len(artists)} |->
                        IF a = sel THEN data ELSE <<>>]
         /\ widgets = [DefaultWidgets EXCEPT !.selected_artist = sel]
    /\ artworks = <<>>
    /\ page = EmptyPage
    /\ last_load = None
    /\ pc = "fetch"

NextFetch == \E o \in SearchOutcomes : GetArtworksMiss(o)

SpecFetch == InitFetch /\ [][NextFetch]_vars

----------------------------------------------------------------------------
(* The export block on arbitrary pixel buffers and backgrounds *)

\* RGBA pixels: transparent (with colour data), opaque, partly transparent
Palette ==
    {<<255, 0, 0, 0>>, <<0, 0, 0, 255>>, <<12, 200, 99, 255>>, <<255, 255, 255, 128>>}

SampleArrays ==
    UNION { {[shape |-> <<h, w, 4>>, px |-> p] : p \in [1..(h * w) -> Palette]}
            \cup {[shape |-> <<h, w, 3>>, px |-> [k \in 1..(h * w) |-> <<0, 0, 0>>]]}
            : h \in 1..MaxH, w \in 1..MaxW }
    \cup {[shape |-> <<1, 1, 4>>, px |-> <<<<v, 255 - v, v, 255>>>>] : v \in 0..255}
    \cup {[shape |-> <<1, 1, 4>>, px |-> <<<<v, v, 255 - v, 0>>>>] : v \in 0..255}

SampleBackgrounds ==
    { ServerImage(ImageUrl("i1")), ServerImage(ImageUrl("i2")), ServerImage(ImageUrl("i3")),
      [mode |-> "RGB", size |-> <<2, 2>>,
       px |-> <<<<1, 2, 3>>, <<40, 50, 60>>, <<70, 80, 90>>, <<255, 254, 253>>>>] }

\* a run that has reached the export block, with or without a background
InitExport ==
    /\ session_state \in {[k \in {BG} |-> None]}
                         \cup {[k \in {BG} |-> Some(b)] : b \in SampleBackgrounds}
    /\ cache = [a \in {} |-> None]
    /\ called = {}
    /\ server = Catalogue
    /\ widgets \in {[DefaultWidgets EXCEPT !.image_data = d] :
                       d \in {None} \cup {Some(arr) : arr \in SampleArrays}}
    /\ artworks = <<>>
    /\ page = EmptyPage
    /\ last_load = None
    /\ pc = "export"

NextExport == ExportStep

SpecExport == InitExport /\ [][NextExport]_vars

----------------------------------------------------------------------------
(* Properties *)

SelectedData == server[widgets.selected_artist]

\* positions of the response's items that carry an image identifier, in order
WithImage(data) ==
    SelectSeq([i \in 1..Len(data) |-> i],
              LAMBDA i : data[i].image_id # None /\ data[i].image_id # Some(""))

\* C1: when the search succeeds, get_artworks returns one record per item that
\* carries an image identifier, in response order, with the item's title and
\* artist_title and the url 'https://www.artic.edu/iiif/2/<image_id>/full/400,/0/default.jpg';
\* items without an identifier do not appear.
C1_FetchMapsItems ==
    (pc = "gallery" /\ page.search = "ok") =>
        LET idx == WithImage(SelectedData)
        IN  /\ Len(artworks) = Len(idx)
            /\ \A k \in 1..Len(idx) :
                 artworks[k] =
                   [title     |-> SelectedData[idx[k]].title,
                    artist    |-> SelectedData[idx[k]].artist_title,
                    image_url |-> "https://www.artic.edu/iiif/2/"
                                  \o SelectedData[idx[k]].image_id[1]
                                  \o "/full/400,/0/default.jpg"]

\* a response with more items than image identifiers, the first item dropped
C1_Witness ==
    /\ pc = "gallery" /\ page.search = "ok"
    /\ Len(SelectedData) = 2 /\ Len(artworks) = 1
    /\ SelectedData[1].image_id = Some("")
    /\ SelectedData[1].title # SelectedData[2].title

\* C2: a call of get_artworks with an artist name it was called with before
\* sends no search request, whatever the first call's outcome was.
C2_OneRequestPerArtist == ~(page.seen /\ page.request)

SearchFailed == page.search \in {"raise", "http_error", "bad_json", "malformed"}

\* the run ended before the canvas was rendered
EndedBeforeCanvas ==
    /\ pc = "aborted"
    /\ page.exception \in {Some("KeyError"), Some("DuplicateWidgetID"),
                           Some("ConnectionError"), Some("UnidentifiedImageError")}

\* C3: any failure of the search (request raised, error status, undecodable or
\* malformed body) yields the empty sequence and the error notice, and the run
\* is not aborted: it goes on to the canvas and export steps.
C3_SearchFailureIsNotFatal ==
    SearchFailed => (artworks = <<>> /\ page.error /\ ~EndedBeforeCanvas)

\* C4: after a successful load with no clear since, the background is exactly
\* the image of the artwork loaded last, whatever was loaded before it.
C4_LastLoadWins ==
    (last_load # None /\ last_load[1].decodable) =>
        /\ BG \in DOMAIN session_state
        /\ session_state[BG] = Some(ServerImage(last_load[1].url))

\* artwork i2 loaded over an earlier background
C4_Witness ==
    /\ last_load # None /\ last_load[1].decodable /\ last_load[1].replaced
    /\ last_load[1].url = ImageUrl("i2")
    /\ pc = "done"

\* C5: the clear step on a clear click leaves the session in NoBackground and
\* raises nothing; with no background loaded it changes nothing and the run
\* goes on to the canvas, and once past the clear step such a run is not aborted.
C5_ClearIsSafe ==
    /\ [][ (pc = "clear" /\ widgets.clicked = Some(ClearKey)) =>
             /\ session_state'[BG] = None
             /\ pc' \in {"canvas", "start"}
             /\ page'.exception = None
             /\ (session_state[BG] = None =>
                   (session_state' = session_state /\ pc' = "canvas")) ]_vars
    /\ []( widgets.clicked = Some(ClearKey) =>
             /\ pc \in {"canvas", "export", "done"} => session_state[BG] = None
             /\ pc = "aborted" => EndedBeforeCanvas )

\* a run started by a clear click with no background loaded has completed
C5_Witness ==
    /\ widgets.clicked = Some(ClearKey)
    /\ pc = "done"
    /\ session_state[BG] = None
    /\ last_load = None

Background(ss) == IF BG \in DOMAIN ss THEN ss[BG] ELSE None

\* C6: the background changes only in the load handler and in the clear
\* handler; every other step of the script and every user interaction leave it
\* as it is.
C6_OnlyLoadOrClearChange ==
    [][ Background(session_state') # Background(session_state) =>
          \/ pc = "gallery" /\ LoadRequested(artworks, widgets.clicked)
          \/ pc = "clear" /\ widgets.clicked = Some(ClearKey) ]_vars

\* a background has survived changes of the sidebar controls, a drawn stroke
\* and an export
C6_Witness ==
    /\ pc = "done"
    /\ Background(session_state) # None
    /\ page.download # None
    /\ widgets.stroke_width # 3 /\ widgets.stroke_color # "#000000"
    /\ widgets.drawing_mode # "freedraw"

AllAlpha(arr, a) == \A k \in 1..Len(arr.px) : arr.px[k][4] = a

Between(x, a, b) == Min(a, b) <= x /\ x <= Max(a, b)

\* C7: with a background, the export has the buffer's size and is the buffer
\* over the background resized to that size: a fully opaque buffer is exported
\* as it is, a fully transparent one gives the resized background, and every
\* colour channel lies between the buffer's and the resized background's.
C7_ExportWithBackground ==
    (pc = "done" /\ session_state[BG] # None /\ ExportGuard(widgets.image_data)) =>
        LET arr == widgets.image_data[1]
            out == page.download[1].image
            bg  == ConvertRGBA(Resize(session_state[BG][1], <<arr.shape[2], arr.shape[1]>>))
        IN  /\ page.download # None
            /\ out.mode = "RGBA"
            /\ out.size = <<arr.shape[2], arr.shape[1]>>
            /\ Len(out.px) = arr.shape[1] * arr.shape[2]
            /\ AllAlpha(arr, 255) => out.px = arr.px
            /\ AllAlpha(arr, 0) => out.px = bg.px
            /\ \A k \in 1..Len(out.px) : \A i \in 1..3 :
                 Between(out.px[k][i], arr.px[k][i], bg.px[k][i])

\* an opaque buffer exported over a background of another size
C7_Witness ==
    /\ pc = "done" /\ session_state[BG] # None /\ page.download # None
    /\ AllAlpha(widgets.image_data[1], 255)
    /\ session_state[BG][1].size # page.download[1].image.size
    /\ page.download[1].image.px # ConvertRGBA(Resize(session_state[BG][1], page.download[1].image.size)).px

\* C8: without a background, the export has the buffer's size and is the
\* buffer pasted through its alpha onto white: a fully transparent buffer gives
\* solid white, a fully opaque one gives the buffer's colour data.
C8_ExportWithoutBackground ==
    (pc = "done" /\ session_state[BG] = None /\ ExportGuard(widgets.image_data)) =>
        LET arr == widgets.image_data[1]
            out == page.download[1].image
        IN  /\ page.download # None
            /\ out.mode = "RGB"
            /\ out.size = <<arr.shape[2], arr.shape[1]>>
            /\ Len(out.px) = arr.shape[1] * arr.shape[2]
            /\ AllAlpha(arr, 0) =>
                 \A k \in 1..Len(out.px) : out.px[k] = <<255, 255, 255>>
            /\ AllAlpha(arr, 255) =>
                 \A k \in 1..Len(out.px) :
                    out.px[k] = <<arr.px[k][1], arr.px[k][2], arr.px[k][3]>>
            /\ \A k \in 1..Len(out.px) : \A i \in 1..3 :
                 Between(out.px[k][i], arr.px[k][i], 255)

\* a transparent buffer that carries colour data, exported as white
C8_Witness ==
    /\ pc = "done" /\ session_state[BG] = None /\ page.download # None
    /\ AllAlpha(widgets.image_data[1], 0)
    /\ widgets.image_data[1].px[1] # <<255, 255, 255, 0>>
    /\ page.download[1].image.px[1] = <<255, 255, 255>>

ValidBuffer(image_data) == image_data # None /\ image_data[1].shape[3] = 4

\* C9: the export runs only on a buffer that is present and has 4 channels;
\* otherwise the run offers no download and raises nothing.
C9_ExportOnlyOnRGBA ==
    /\ page.download # None => ValidBuffer(widgets.image_data)
    /\ page.exception # Some("ValueError")
    /\ (pc = "done" /\ ~ValidBuffer(widgets.image_data)) => page.download = None

\* a run with a 3-channel buffer has completed without a download
C9_Witness ==
    /\ pc = "done"
    /\ widgets.image_data # None /\ widgets.image_data[1].shape[3] = 3
    /\ page.download = None /\ page.exception = None

\* C10: a load whose download or decode fails leaves the background as it was.
C10_FailedLoadKeepsBackground ==
    [][ ( /\ pc = "gallery" /\ LoadRequested(artworks, widgets.clicked)
          /\ \/ pc' = "aborted"
             \/ last_load' # None /\ ~last_load'[1].decodable )
        => session_state' = session_state ]_vars

====
